---- MODULE Spec2Model ----
(***************************************************************************)
(* Secret Snowflake (src/main.py): validation of the participant table,    *)
(* the randomized greedy matching generator gen_matches with its           *)
(* restart-on-deadlock recursion, and the pipeline of main.                *)
(***************************************************************************)
EXTENDS Integers, Sequences, FiniteSets, TLC

VARIABLES
    pc,                 \* position of main (or the name of the harness driving a function)
    credentials,        \* config.GMAIL_EMAIL and config.GMAIL_PW are both set
    df,                 \* the DataFrame: a sequence of rows (in main, first the rows of the file)
    columns,            \* df.columns
    original_count,     \* main: len(df) before drop_duplicates
    validation_errors,  \* result of validate_dataframe
    no_match_list,      \* config.NO_MATCH_LIST
    max_attempts,       \* argument of gen_matches
    random_seed,        \* None, or what RandomState(seed) produces
    gens,               \* run id -> the state of one call of gen_matches
    matches,            \* main: list(gen_matches(...))
    sent,               \* main: number of pairs already handed to send_email
    successful_emails,  \* main
    failed_emails       \* main

vars == <<pc, credentials, df, columns, original_count, validation_errors,
          no_match_list, max_attempts, random_seed, gens, matches, sent,
          successful_emails, failed_emails>>

----------------------------------------------------------------------------
(* Bounds of the model *)

\* gen_matches alone: registries of 2..NumParticipants participants
NumParticipants == 3
\* gen_matches alone: at most this many forbidden pairs
MaxExclusions == 2
\* gen_matches alone: max_attempts ranges over 0..MaxAttemptsBound
MaxAttemptsBound == 2
\* gen_matches alone: participants plus max_attempts of one run stay within this
SizeBudget == 5
\* validate_dataframe alone: tables of 0..ValidateMaxRows rows
ValidateMaxRows == 2
\* main: files of 0..MainMaxRows rows
MainMaxRows == 3
\* gen_matches: default of max_attempts
DefaultMaxAttempts == 100

\* random_seed when RANDOM_SEED is not set
None == [seeded |-> FALSE]
\* the float NaN pandas puts in an empty cell (not a string of characters)
NaN == <<"NaN">>

----------------------------------------------------------------------------
(* Values *)

Letters == <<"a", "b", "c", "d", "e">>

\* a well-formed address: <letter>@x.co
EmailOf(k) == <<Letters[k], "@", "x", ".", "c", "o">>

\* a complete, valid row of the table
RowOf(k) ==
    [email_address |-> EmailOf(k),
     name |-> <<"N", Letters[k]>>,
     mailing_address |-> <<"S", Letters[k]>>,
     gift_ideas |-> <<"G">>]

Range(s) == {s[k] : k \in 1..Len(s)}

\* Person(name, email_address, mailing_address, gift_ideas) built from one row
Person(row) ==
    [name |-> row.name,
     email_address |-> row.email_address,
     mailing_address |-> row.mailing_address,
     gift_ideas |-> row.gift_ideas]

\* df['email_address'].tolist()
AllEmails(d) == [k \in 1..Len(d) |-> d[k].email_address]

----------------------------------------------------------------------------
(* The random source *)

Perms(n) == {p \in [1..n -> 1..n] : \A i, j \in 1..n : p[i] = p[j] => i = j}

\* What RandomState(seed) produces for a table of n rows: the position it
\* draws from k candidates (k < n, a giver is never its own candidate) and
\* the permutation it shuffles n rows with.  Each call builds a fresh
\* RandomState from the same seed, so both are functions of the seed.
SeedsFor(n) ==
    [seeded : {TRUE},
     choice : {c \in [1..(n - 1) -> 1..n] : \A k \in 1..(n - 1) : c[k] <= k},
     permutation : Perms(n)]

\* df.sample(random_state=random_seed): the rows one draw can return
WrongSampleOne(rows, seed) == {rows[k] : k \in 1..Len(rows)}

SampleOne(rows, seed) ==
    IF ~seed.seeded
    THEN {rows[k] : k \in 1..Len(rows)}
    ELSE {rows[seed.choice[Len(rows)]]}

\* df.sample(frac=1, random_state=random_seed).reset_index(drop=True)
Shuffle(d, seed) ==
    IF ~seed.seeded
    THEN {[k \in 1..Len(d) |-> d[p[k]]] : p \in Perms(Len(d))}
    ELSE {[k \in 1..Len(d) |-> d[seed.permutation[k]]]}

----------------------------------------------------------------------------
(* gen_matches *)

\* the candidates of one giver, in the order of all_emails
NoExclusionAvailable(all_emails, email, no_match_set, already_matched) ==
    SelectSeq(all_emails,
              LAMBDA m : m # email /\ m \notin already_matched)

RepeatingAvailable(all_emails, email, no_match_set, already_matched) ==
    SelectSeq(all_emails,
              LAMBDA m : m # email /\ <<email, m>> \notin no_match_set)

AvailableMatches(all_emails, email, no_match_set, already_matched) ==
    SelectSeq(all_emails,
              LAMBDA m : /\ m # email
                         /\ <<email, m>> \notin no_match_set
                         /\ m \notin already_matched)

\* the guard that ends the recursion
LateExhausted(attempt, max) == attempt > max

AttemptsExhausted(attempt, max) == attempt >= max

\* a call of gen_matches that has not run yet
NewGen(d, attempt, st) ==
    [df |-> d, attempt |-> attempt, state |-> st, i |-> 1,
     already_matched |-> {}, out |-> <<>>, cur |-> <<>>]

\* first entry into the body of the (possibly recursive) call
GenStart(r) ==
    /\ gens[r].state = "enter"
    /\ IF AttemptsExhausted(gens[r].attempt, max_attempts)
       THEN gens' = [gens EXCEPT ![r].state = "raised"]
       ELSE gens' = [gens EXCEPT ![r].state = "loop",
                                 ![r].already_matched = {},
                                 ![r].i = 1,
                                 ![r].cur = <<>>]
    /\ UNCHANGED <<pc, credentials, df, columns, original_count,
                   validation_errors, no_match_list, max_attempts, random_seed,
                   matches, sent, successful_emails, failed_emails>>

\* no candidate left for the current giver: recurse on the reshuffled table
GenDeadlock(r) ==
    LET g == gens[r]
        all_emails == AllEmails(g.df) IN
    /\ g.state = "loop"
    /\ g.i <= Len(all_emails)
    /\ AvailableMatches(all_emails, all_emails[g.i], no_match_list,
                        g.already_matched) = <<>>
    /\ \E d \in Shuffle(g.df, random_seed) :
          gens' = [gens EXCEPT ![r].df = d,
                               ![r].attempt = g.attempt + 1,
                               ![r].state = "enter"]
    /\ UNCHANGED <<pc, credentials, df, columns, original_count,
                   validation_errors, no_match_list, max_attempts, random_seed,
                   matches, sent, successful_emails, failed_emails>>

\* draw a receiver for the current giver and yield the pair
GenYield(r) ==
    LET g == gens[r]
        all_emails == AllEmails(g.df)
        email == all_emails[g.i]
        available_matches ==
            AvailableMatches(all_emails, email, no_match_list, g.already_matched)
        candidates ==
            SelectSeq(g.df, LAMBDA row : row.email_address \in Range(available_matches))
        giving_person_df ==
            SelectSeq(g.df, LAMBDA row : row.email_address = email) IN
    /\ g.state = "loop"
    /\ g.i <= Len(all_emails)
    /\ available_matches # <<>>
    /\ \E match_row \in SampleOne(candidates, random_seed) :
          LET pair == <<Person(giving_person_df[1]), Person(match_row)>> IN
          gens' = [gens EXCEPT
                     ![r].already_matched = g.already_matched \cup {match_row.email_address},
                     ![r].i = g.i + 1,
                     ![r].out = Append(g.out, pair),
                     ![r].cur = Append(g.cur, pair)]
    /\ UNCHANGED <<pc, credentials, df, columns, original_count,
                   validation_errors, no_match_list, max_attempts, random_seed,
                   matches, sent, successful_emails, failed_emails>>

\* every giver was processed: the generator is exhausted
GenReturn(r) ==
    /\ gens[r].state = "loop"
    /\ gens[r].i > Len(gens[r].df)
    /\ gens' = [gens EXCEPT ![r].state = "returned"]
    /\ UNCHANGED <<pc, credentials, df, columns, original_count,
                   validation_errors, no_match_list, max_attempts, random_seed,
                   matches, sent, successful_emails, failed_emails>>

NextGen ==
    \E r \in DOMAIN gens :
        \/ GenStart(r)
        \/ GenDeadlock(r)
        \/ GenYield(r)
        \/ GenReturn(r)

----------------------------------------------------------------------------
(* gen_matches called directly on a valid registry *)

Registry(n) == [k \in 1..n |-> RowOf(k)]

\* the directional pairs a NO_MATCH_LIST over n participants can forbid
ForbiddablePairs(n) ==
    {<<EmailOf(i), EmailOf(j)>> : i, j \in 1..n} \ {<<EmailOf(i), EmailOf(i)>> : i \in 1..n}

InitCommon ==
    /\ credentials = TRUE
    /\ columns = {"email_address", "name", "mailing_address", "gift_ideas"}
    /\ original_count = 0
    /\ validation_errors = <<>>
    /\ matches = <<>>
    /\ sent = 0
    /\ successful_emails = <<>>
    /\ failed_emails = <<>>

Init ==
    /\ pc = "gen_matches"
    /\ InitCommon
    /\ \E n \in 2..NumParticipants :
          /\ df = Registry(n)
          /\ no_match_list \in
                {S \in SUBSET ForbiddablePairs(n) : Cardinality(S) <= MaxExclusions}
    /\ max_attempts \in 0..MaxAttemptsBound
    /\ Len(df) + max_attempts <= SizeBudget
    /\ random_seed = None
    /\ gens = [r \in {1} |-> NewGen(df, 0, "enter")]

Spec == Init /\ [][NextGen]_vars


----------------------------------------------------------------------------
(* Two runs of gen_matches on the same arguments with the same seed *)

\* a second call with the arguments of the first, once the first has ended
Rerun ==
    /\ gens[1].state \in {"returned", "raised"}
    /\ gens[2].state = "idle"
    /\ gens' = [gens EXCEPT ![2].state = "enter"]
    /\ UNCHANGED <<pc, credentials, df, columns, original_count,
                   validation_errors, no_match_list, max_attempts, random_seed,
                   matches, sent, successful_emails, failed_emails>>

InitDet ==
    /\ pc = "gen_matches twice"
    /\ InitCommon
    /\ \E n \in 2..NumParticipants :
          /\ df = Registry(n)
          /\ no_match_list \in
                {S \in SUBSET ForbiddablePairs(n) : Cardinality(S) <= MaxExclusions}
          /\ random_seed \in SeedsFor(n)
    /\ max_attempts \in 1..MaxAttemptsBound
    /\ Len(df) + max_attempts <= SizeBudget
    /\ gens = [r \in {1, 2} |-> NewGen(df, 0, IF r = 1 THEN "enter" ELSE "idle")]

NextDet == NextGen \/ Rerun

SpecDet == InitDet /\ [][NextDet]_vars

----------------------------------------------------------------------------
(* Properties of gen_matches *)

Givers(pairs) == {pairs[k][1].email_address : k \in 1..Len(pairs)}
Receivers(pairs) == {pairs[k][2].email_address : k \in 1..Len(pairs)}
Participants == Range(AllEmails(df))

Deadlocked(g) == g.attempt > 0

\* C1: when gen_matches completes without raising, the delivered pairs are a
\* bijection: every participant is giver of exactly one delivered pair and
\* receiver of exactly one delivered pair, also after deadlocked attempts.
C1_DeliveredIsBijection ==
    \A r \in DOMAIN gens :
        gens[r].state = "returned" =>
            /\ Len(gens[r].out) = Len(df)
            /\ Givers(gens[r].out) = Participants
            /\ Receivers(gens[r].out) = Participants

\* C2: every delivered pair, of any attempt, has giver # receiver and is not
\* a forbidden (giver, receiver) pair; only that direction is tested.
C2_NoSelfNoExcluded ==
    \A r \in DOMAIN gens : \A k \in 1..Len(gens[r].out) :
        LET giver == gens[r].out[k][1]
            receiver == gens[r].out[k][2] IN
        /\ giver.email_address # receiver.email_address
        /\ <<giver.email_address, receiver.email_address>> \notin no_match_list

C2_Witness ==
    /\ gens[1].state = "returned"
    /\ Deadlocked(gens[1])
    /\ no_match_list # {}
    /\ \E k \in 1..Len(gens[1].out) :
          <<gens[1].out[k][2].email_address, gens[1].out[k][1].email_address>>
              \in no_match_list

\* a permutation of the participants without fixed point and forbidden pair
Feasible ==
    \E p \in Perms(Len(df)) :
        \A k \in 1..Len(df) :
            /\ p[k] # k
            /\ <<df[k].email_address, df[p[k]].email_address>> \notin no_match_list

\* C3: when the exclusions admit a perfect derangement, gen_matches ends by
\* returning exactly N pairs, whatever the draws and reshuffles.
C3_FeasibleReturnsN ==
    (Feasible /\ max_attempts >= 1) =>
        \A r \in DOMAIN gens :
            /\ gens[r].state # "raised"
            /\ gens[r].state = "returned" => Len(gens[r].out) = Len(df)

MutualTwo ==
    /\ Len(df) = 2
    /\ no_match_list = {<<df[1].email_address, df[2].email_address>>,
                        <<df[2].email_address, df[1].email_address>>}

\* rank of a run: it decreases with every step of the run and is never negative
Variant(g) ==
    (max_attempts - g.attempt) * (Len(df) + 4)
      + CASE g.state = "enter" -> Len(df) + 3
          [] g.state = "loop" -> Len(df) + 2 - g.i
          [] OTHER -> 0

Ended(g) == g.state \in {"returned", "raised"}

\* C4: two participants who exclude each other: the run ends by raising, for
\* any max_attempts >= 0, it cannot go on forever and delivers no pair.
C4_MutualExclusionRaises ==
    [][MutualTwo =>
         /\ gens'[1].out = <<>>
         /\ gens'[1].state # "returned"
         /\ Variant(gens'[1]) < Variant(gens[1])
         /\ Variant(gens'[1]) >= 0
         /\ (~Ended(gens'[1]) => (ENABLED NextGen)')]_vars

C4_Witness ==
    /\ MutualTwo
    /\ gens[1].state = "raised"
    /\ gens[1].attempt = max_attempts
    /\ max_attempts >= 2
    /\ gens[1].out = <<>>

\* C5: the run terminates: the attempt counter starts at 0, grows by exactly
\* 1 on each deadlock and otherwise stays, at most max_attempts attempts
\* iterate over the givers, and a call entered with the counter at
\* max_attempts raises instead of starting another attempt.
C5_BoundedAttempts ==
    /\ gens[1].attempt = 0
    /\ [][LET g == gens[1]
              h == gens'[1] IN
          /\ h.attempt = IF g.state = "loop" /\ h.state = "enter"
                         THEN g.attempt + 1 ELSE g.attempt
          /\ h.attempt <= max_attempts
          /\ (h.state = "loop" => h.attempt < max_attempts)
          /\ (g.state = "enter" /\ g.attempt = max_attempts => h.state = "raised")
          /\ (h.state = "raised" => h.attempt = max_attempts)
          /\ Variant(h) < Variant(g)
          /\ Variant(h) >= 0
          /\ (~Ended(h) => (ENABLED NextGen)')]_vars

C5_Witness ==
    /\ gens[1].state = "raised"
    /\ gens[1].attempt = max_attempts
    /\ max_attempts >= 2
    /\ gens[1].out # <<>>

\* C6: with a seed, a second run on the same arguments delivers the same
\* pairs in the same order and ends the same way as the first.
C6_SeededRunsAgree ==
    /\ \E k \in 0..Len(gens[1].out) : gens[2].out = SubSeq(gens[1].out, 1, k)
    /\ Ended(gens[2]) =>
          /\ gens[2].out = gens[1].out
          /\ gens[2].state = gens[1].state
          /\ gens[2].attempt = gens[1].attempt

C6_Witness ==
    /\ gens[2].state = "returned"
    /\ Deadlocked(gens[2])
    /\ Len(gens[2].out) > Len(df)

\* C9: on a deadlock the pairs of the attempt are abandoned: what a
\* successful run delivered is exactly the pairs of the attempt that
\* processed every giver.
C9_DeliveredIsLastAttempt ==
    \A r \in DOMAIN gens :
        gens[r].state = "returned" => gens[r].out = gens[r].cur

\* C10: within one attempt already_matched starts empty and is always the set
\* of receivers of the pairs produced so far in the attempt, one per pair.
C10_AlreadyMatchedIsReceivers ==
    \A r \in DOMAIN gens :
        gens[r].state = "loop" =>
            /\ gens[r].already_matched = Receivers(gens[r].cur)
            /\ Cardinality(gens[r].already_matched) = Len(gens[r].cur)
            /\ Len(gens[r].cur) = gens[r].i - 1
            /\ (gens[r].i = 1 => gens[r].already_matched = {})

C10_Witness ==
    /\ gens[1].state = "loop"
    /\ Deadlocked(gens[1])
    /\ gens[1].out # gens[1].cur
    /\ Len(gens[1].cur) >= 2

----------------------------------------------------------------------------
(* validate_email, validate_dataframe *)

Whitespace == {" "}
LetterChars == {"a", "b", "c", "d", "e", "x", "o", "N", "S", "G"}
DigitChars == {"0", "1"}
LocalChars == LetterChars \cup DigitChars \cup {".", "_", "%", "+", "-"}
DomainChars == LetterChars \cup DigitChars \cup {".", "-"}

\* str.strip()
Strip(s) ==
    LET solid == {k \in 1..Len(s) : s[k] \notin Whitespace} IN
    IF solid = {} THEN <<>>
    ELSE SubSeq(s,
                CHOOSE k \in solid : \A j \in solid : k <= j,
                CHOOSE k \in solid : \A j \in solid : k >= j)

\* EMAIL_REGEX.match(s): ^[a-zA-Z0-9._%+-]+@[a-zA-Z0-9.-]+\.[a-zA-Z]{2,}$
EmailRegexMatch(s) ==
    \E at \in 2..Len(s) : \E dot \in (at + 2)..(Len(s) - 2) :
        /\ \A k \in 1..(at - 1) : s[k] \in LocalChars
        /\ s[at] = "@"
        /\ \A k \in (at + 1)..(dot - 1) : s[k] \in DomainChars
        /\ s[dot] = "."
        /\ \A k \in (dot + 1)..Len(s) : s[k] \in LetterChars

validate_email(email) ==
    IF email = <<>> \/ email = NaN
    THEN FALSE
    ELSE EmailRegexMatch(Strip(email))

\* pd.isna(v) or str(v).strip() == ''
IsMissing(v) == v = NaN \/ Strip(v) = <<>>

required_columns == <<"email_address", "name", "mailing_address", "gift_ideas">>

\* the messages of one row; idx is the row's index label
FirstRowError(row, idx) ==
    IF ~validate_email(row.email_address)
    THEN <<<<"Row", idx, "Invalid email address", row.email_address>>>>
    ELSE IF IsMissing(row.name)
    THEN <<<<"Row", idx, "Missing name for", row.email_address>>>>
    ELSE IF IsMissing(row.mailing_address)
    THEN <<<<"Row", idx, "Missing mailing address for", row.email_address>>>>
    ELSE IF IsMissing(row.gift_ideas)
    THEN <<<<"Row", idx, "Missing gift ideas for", row.email_address>>>>
    ELSE <<>>

RowErrors(row, idx) ==
    (IF ~validate_email(row.email_address)
     THEN <<<<"Row", idx, "Invalid email address", row.email_address>>>>
     ELSE <<>>)
    \o (IF IsMissing(row.name)
        THEN <<<<"Row", idx, "Missing name for", row.email_address>>>>
        ELSE <<>>)
    \o (IF IsMissing(row.mailing_address)
        THEN <<<<"Row", idx, "Missing mailing address for", row.email_address>>>>
        ELSE <<>>)
    \o (IF IsMissing(row.gift_ideas)
        THEN <<<<"Row", idx, "Missing gift ideas for", row.email_address>>>>
        ELSE <<>>)

validate_dataframe(d, cols) ==
    LET too_few ==
            IF Len(d) < 2
            THEN <<<<"Need at least 2 participants, found", Len(d)>>>>
            ELSE <<>>
        missing[k \in 0..Len(required_columns)] ==
            IF k = 0 THEN <<>>
            ELSE IF required_columns[k] \notin cols
                 THEN Append(missing[k - 1],
                             <<"Missing required column", required_columns[k]>>)
                 ELSE missing[k - 1]
        errors == too_few \o missing[Len(required_columns)]
        rows[k \in 0..Len(d)] ==
            IF k = 0 THEN <<>>
            ELSE rows[k - 1] \o RowErrors(d[k], k - 1) IN
    IF errors # <<>> THEN errors ELSE rows[Len(d)]

\* validate_dataframe(df) called on a table
CallValidate ==
    /\ pc = "validate_dataframe"
    /\ validation_errors' = validate_dataframe(df, columns)
    /\ pc' = "validated"
    /\ UNCHANGED <<credentials, df, columns, original_count, no_match_list,
                   max_attempts, random_seed, gens, matches, sent,
                   successful_emails, failed_emails>>

\* cell values the tables are drawn from
EmailCells ==
    {EmailOf(1),
     <<" ", "b", "@", "x", ".", "c", "o", " ">>,
     <<"c", "@", "x", ".", "c">>,
     NaN}
NameCells == {<<"N", "a">>, <<" ", " ">>}
AddressCells == {<<"S", "a">>, NaN}
GiftCells == {<<"G">>, <<>>}

\* the rows a table with the columns cols can hold (an absent column has no cell)
RowsWith(cols) ==
    [email_address : IF "email_address" \in cols THEN EmailCells ELSE {NaN},
     name : IF "name" \in cols THEN NameCells ELSE {NaN},
     mailing_address : IF "mailing_address" \in cols THEN AddressCells ELSE {NaN},
     gift_ideas : IF "gift_ideas" \in cols THEN GiftCells ELSE {NaN}]

SeqsUpTo(S, n) == UNION {[1..k -> S] : k \in 0..n}

InitValidate ==
    /\ pc = "validate_dataframe"
    /\ credentials = TRUE
    /\ columns \in SUBSET Range(required_columns)
    /\ df \in SeqsUpTo(RowsWith(columns), ValidateMaxRows)
    /\ original_count = 0
    /\ validation_errors = <<>>
    /\ no_match_list = {}
    /\ max_attempts = 0
    /\ random_seed = None
    /\ gens = [r \in {1} |-> NewGen(<<>>, 0, "idle")]
    /\ matches = <<>>
    /\ sent = 0
    /\ successful_emails = <<>>
    /\ failed_emails = <<>>

NextValidate == CallValidate

SpecValidate == InitValidate /\ [][NextValidate]_vars

----------------------------------------------------------------------------
(* Properties of validate_dataframe *)

\* the defects of the table as a whole
StructuralDefects ==
    (IF Len(df) < 2 THEN {<<"Need at least 2 participants, found", Len(df)>>} ELSE {})
    \cup {<<"Missing required column", c>> : c \in Range(required_columns) \ columns}

\* the defects of the cells of the columns the table has
RowDefects ==
    {<<"Row", k - 1, "Invalid email address", df[k].email_address>> :
        k \in {j \in 1..Len(df) : /\ "email_address" \in columns
                                  /\ ~validate_email(df[j].email_address)}}
    \cup {<<"Row", k - 1, "Missing name for", df[k].email_address>> :
        k \in {j \in 1..Len(df) : "name" \in columns /\ IsMissing(df[j].name)}}
    \cup {<<"Row", k - 1, "Missing mailing address for", df[k].email_address>> :
        k \in {j \in 1..Len(df) : /\ "mailing_address" \in columns
                                  /\ IsMissing(df[j].mailing_address)}}
    \cup {<<"Row", k - 1, "Missing gift ideas for", df[k].email_address>> :
        k \in {j \in 1..Len(df) : "gift_ideas" \in columns /\ IsMissing(df[j].gift_ideas)}}

OneEntryEach(errors) == Len(errors) = Cardinality(Range(errors))

----------------------------------------------------------------------------
(* main *)

\* df.drop_duplicates(subset='email_address', keep='first', ignore_index=True)
drop_duplicates(d) ==
    LET kept[k \in 0..Len(d)] ==
            IF k = 0 THEN <<>>
            ELSE IF \E j \in 1..(k - 1) : d[j].email_address = d[k].email_address
                 THEN kept[k - 1]
                 ELSE Append(kept[k - 1], d[k]) IN
    kept[Len(d)]

\* where main goes once validate_dataframe returned
IgnoreValidation(errors) == "generate"

AfterValidation(errors) == IF errors # <<>> THEN "exit" ELSE "generate"

\* where main goes once list(gen_matches(...)) ended
AfterGeneration(state) == IF state = "raised" THEN "exit" ELSE "send"

\* credentials check
MainCheckCredentials ==
    /\ pc = "start"
    /\ pc' = IF credentials THEN "read" ELSE "exit"
    /\ UNCHANGED <<credentials, df, columns, original_count, validation_errors,
                   no_match_list, max_attempts, random_seed, gens, matches, sent,
                   successful_emails, failed_emails>>

\* pd.read_csv: the file is read, or reading fails and main exits
MainReadCsv ==
    /\ pc = "read"
    /\ \E ok \in BOOLEAN : pc' = IF ok THEN "dedup" ELSE "exit"
    /\ UNCHANGED <<credentials, df, columns, original_count, validation_errors,
                   no_match_list, max_attempts, random_seed, gens, matches, sent,
                   successful_emails, failed_emails>>

MainDropDuplicates ==
    /\ pc = "dedup"
    /\ original_count' = Len(df)
    /\ df' = drop_duplicates(df)
    /\ pc' = "validate"
    /\ UNCHANGED <<credentials, columns, validation_errors, no_match_list,
                   max_attempts, random_seed, gens, matches, sent,
                   successful_emails, failed_emails>>

MainValidate ==
    /\ pc = "validate"
    /\ validation_errors' = validate_dataframe(df, columns)
    /\ pc' = AfterValidation(validation_errors')
    /\ UNCHANGED <<credentials, df, columns, original_count, no_match_list,
                   max_attempts, random_seed, gens, matches, sent,
                   successful_emails, failed_emails>>

\* matches = list(gen_matches(df, random_seed=random_seed)): the call
MainGenerate ==
    /\ pc = "generate"
    /\ max_attempts' = DefaultMaxAttempts
    /\ gens' = [gens EXCEPT ![1] = NewGen(df, 0, "enter")]
    /\ pc' = "collect"
    /\ UNCHANGED <<credentials, df, columns, original_count, validation_errors,
                   no_match_list, random_seed, matches, sent,
                   successful_emails, failed_emails>>

\* the generator is exhausted (matches is the list of what it yielded) or it
\* raised (the list is lost, main exits)
MainCollect ==
    /\ pc = "collect"
    /\ gens[1].state \in {"returned", "raised"}
    /\ pc' = AfterGeneration(gens[1].state)
    /\ matches' = IF gens[1].state = "returned" THEN gens[1].out ELSE matches
    /\ UNCHANGED <<credentials, df, columns, original_count, validation_errors,
                   no_match_list, max_attempts, random_seed, gens, sent,
                   successful_emails, failed_emails>>

\* send_email(giver, receiver) for the next pair; it reports success or failure
MainSendEmail ==
    /\ pc = "send"
    /\ sent < Len(matches)
    /\ \E success \in BOOLEAN :
          LET giver == matches[sent + 1][1] IN
          /\ successful_emails' =
                IF success THEN Append(successful_emails, giver.email_address)
                ELSE successful_emails
          /\ failed_emails' =
                IF success THEN failed_emails
                ELSE Append(failed_emails, giver.email_address)
    /\ sent' = sent + 1
    /\ UNCHANGED <<pc, credentials, df, columns, original_count, validation_errors,
                   no_match_list, max_attempts, random_seed, gens, matches>>

MainSummary ==
    /\ pc = "send"
    /\ sent = Len(matches)
    /\ pc' = "done"
    /\ UNCHANGED <<credentials, df, columns, original_count, validation_errors,
                   no_match_list, max_attempts, random_seed, gens, matches, sent,
                   successful_emails, failed_emails>>

\* the rows the files of main are made of: two valid participants and one
\* whose name is missing
MainRows == {RowOf(1), RowOf(2), [RowOf(3) EXCEPT !.name = <<>>]}

InitMain ==
    /\ pc = "start"
    /\ credentials \in BOOLEAN
    /\ df \in SeqsUpTo(MainRows, MainMaxRows)
    /\ columns = Range(required_columns)
    /\ original_count = 0
    /\ validation_errors = <<>>
    /\ no_match_list \in SUBSET ForbiddablePairs(2)
    /\ max_attempts = DefaultMaxAttempts
    /\ random_seed \in {None} \cup SeedsFor(2)
    /\ gens = [r \in {1} |-> NewGen(<<>>, 0, "idle")]
    /\ matches = <<>>
    /\ sent = 0
    /\ successful_emails = <<>>
    /\ failed_emails = <<>>

NextMain ==
    \/ MainCheckCredentials
    \/ MainReadCsv
    \/ MainDropDuplicates
    \/ MainValidate
    \/ MainGenerate
    \/ NextGen
    \/ MainCollect
    \/ MainSendEmail
    \/ MainSummary

SpecMain == InitMain /\ [][NextMain]_vars

----------------------------------------------------------------------------
(* Properties of main *)

Notified == sent > 0 \/ successful_emails # <<>> \/ failed_emails # <<>>

\* C8: send_email is called only after validate_dataframe returned an empty
\* list and gen_matches ran to completion without raising; when validation or
\* generation fails, no pair, not even of a partial assignment, is sent.
C8_SendOnlyAfterSuccess ==
    /\ (Notified \/ pc \in {"send", "done"}) =>
          /\ validation_errors = <<>>
          /\ validate_dataframe(df, columns) = <<>>
          /\ gens[1].state = "returned"
          /\ matches = gens[1].out
    /\ (validation_errors # <<>> \/ gens[1].state = "raised") =>
          /\ ~Notified
          /\ matches = <<>>
          /\ pc \in {"exit", "collect"}

C8_Witness ==
    /\ pc = "exit"
    /\ gens[1].state = "raised"
    /\ gens[1].out # <<>>
    /\ ~Notified

====
